---- MODULE Spec2Model ----
(***************************************************************************)
(* Model of src/exercises/algorithm/algorithm9.rs: Heap<T>, an array-backed *)
(* binary heap with a stored comparator, its add operation and its          *)
(* Iterator::next operation.  T is modelled as a small range of i32 values. *)
(* A Rust index i of the Vec `items` is position i + 1 of the TLA+ sequence.*)
(***************************************************************************)
EXTENDS Integers, Sequences, FiniteSets, Bags, TLC

\* ---------------------------------------------------------------- bounds
MaxAdds == 5          \* total number of add calls explored in one run
MaxVal  == 1          \* values are drawn from -1 .. MaxVal

Values  == (0 - 1) .. MaxVal

\* T::default() for the integer element type used by the tests
Default == 0

\* Option<T>
None    == << >>
Some(v) == << v >>

\* ------------------------------------------------------------ comparators
\* fn(&T, &T) -> bool values a heap can be constructed with:
\*   "lt"    |a, b| a < b             (new_min, MinHeap::new)
\*   "gt"    |a, b| a > b             (new_max, MaxHeap::new)
\*   "abslt" |a, b| a.abs() < b.abs() (Heap::new, custom strict weak order)
\*   "le"    |a, b| a <= b            (Heap::new, custom non-strict predicate)
\*   "gap"   |a, b| a + 1 < b         (Heap::new, custom strict partial order)
Comparators == {"lt", "gt", "abslt", "le", "gap"}

Abs(a) == IF a < 0 THEN 0 - a ELSE a

Cmp(c, a, b) ==
    CASE c = "lt"    -> a < b
      [] c = "gt"    -> a > b
      [] c = "abslt" -> Abs(a) < Abs(b)
      [] c = "le"    -> a <= b
      [] c = "gap"   -> a + 1 < b

\* ------------------------------------------------------- Vec<T> primitives
At(s, i)      == s[i + 1]
InBounds(s, i) == i >= 0 /\ i < Len(s)
Put(s, i, v)  == [s EXCEPT ![i + 1] = v]
\* only one half of the exchange is done
Swap_one_way(s, i, j) == [s EXCEPT ![i + 1] = s[j + 1]]
Swap(s, i, j) == [s EXCEPT ![i + 1] = s[j + 1], ![j + 1] = s[i + 1]]

\* A working copy of the heap inside one call: the Vec, the set of indices
\* the call has used so far, whether an index was out of bounds (panic), and
\* the values current_idx has taken in the call's loop, in order.
Use(st, idxs) ==
    [st EXCEPT !.touched = @ \cup idxs,
               !.panic   = @ \/ (\E i \in idxs : ~InBounds(st.items, i))]

\* ------------------------------------------------------- index arithmetic
\* parent of a node in a 0-indexed layout, used with the 1-indexed one
parent_idx_zero_based(idx) == (idx - 1) \div 2
parent_idx(idx)      == idx \div 2
left_child_idx(idx)  == idx * 2
right_child_idx(idx) == left_child_idx(idx) + 1
\* off by one: the last live slot is not seen as a child
children_present_strict(count, idx) == left_child_idx(idx) < count
children_present(count, idx) == left_child_idx(idx) <= count

\* the length of a freshly grown Vec instead of the number of live elements
len_with_sentinel(count) == count + 1
len(count)      == count
is_empty(count) == len(count) = 0

\* the right child is never considered
smallest_child_idx_left_only(cmp, items, count, idx) == left_child_idx(idx)

\* Check if right child exists and is smaller than left child
smallest_child_idx(cmp, items, count, idx) ==
    LET left_idx  == left_child_idx(idx)
        right_idx == right_child_idx(idx)
    IN  IF right_idx <= count /\ Cmp(cmp, At(items, right_idx), At(items, left_idx))
        THEN right_idx
        ELSE left_idx

\* the indices smallest_child_idx reads: both children when the right one
\* is live, none otherwise (the && short-circuits)
smallest_child_reads(count, idx) ==
    IF right_child_idx(idx) <= count
    THEN {left_child_idx(idx), right_child_idx(idx)}
    ELSE {}

\* --------------------------------------------------------------- Heap::add
\* placement of the new value at index count (count already incremented)
Store(st, idx, value) ==
    LET st1 == Use(st, {idx})
    IN  IF st1.panic THEN st1 ELSE [st1 EXCEPT !.items = Put(@, idx, value)]

\* `>` instead of `>=`: a full Vec is indexed one past its end
place_no_grow_when_full(items, count, value) ==
    IF count > Len(items)
    THEN [items |-> Append(items, value), touched |-> {}, panic |-> FALSE,
          path |-> << count >>]
    ELSE Store([items |-> items, touched |-> {}, panic |-> FALSE,
                path |-> << count >>], count, value)

\* the value is always pushed, also when a stale slot is available
place_always_push(items, count, value) ==
    [items |-> Append(items, value), touched |-> {}, panic |-> FALSE,
     path |-> << count >>]

place(items, count, value) ==
    IF count >= Len(items)
    THEN [items |-> Append(items, value), touched |-> {}, panic |-> FALSE,
          path |-> << count >>]
    ELSE Store([items |-> items, touched |-> {}, panic |-> FALSE,
                path |-> << count >>], count, value)

\* up-heap bubbling: the while loop of add
RECURSIVE up_heap(_, _, _)
up_heap(cmp, st, current_idx) ==
    IF st.panic \/ ~(current_idx > 1)
    THEN st
    ELSE LET pid == parent_idx(current_idx)
             st1 == Use(st, {current_idx, pid})
         IN  IF st1.panic
             THEN st1
             ELSE IF Cmp(cmp, At(st.items, current_idx), At(st.items, pid))
                  THEN up_heap(cmp, [st1 EXCEPT !.items = Swap(@, current_idx, pid),
                                                !.path = Append(@, pid)], pid)
                  ELSE st1

add_op(cmp, items, count, value) ==
    LET count1 == count + 1
        st     == up_heap(cmp, place(items, count1, value), count1)
    IN  [items |-> st.items, count |-> count1,
         touched |-> st.touched, panic |-> st.panic, path |-> st.path]

\* ------------------------------------------------------------- Heap::next
\* down-heap bubbling: the while loop of next
RECURSIVE down_heap(_, _, _, _)
down_heap(cmp, st, count, current_idx) ==
    IF st.panic \/ ~children_present(count, current_idx)
    THEN st
    ELSE LET st1 == Use(st, smallest_child_reads(count, current_idx))
         IN  IF st1.panic
             THEN st1
             ELSE LET smallest_child == smallest_child_idx(cmp, st.items, count, current_idx)
                      st2 == Use(st1, {smallest_child, current_idx})
                  IN  IF st2.panic
                      THEN st2
                      ELSE IF Cmp(cmp, At(st.items, smallest_child), At(st.items, current_idx))
                           THEN down_heap(cmp,
                                    [st2 EXCEPT !.items = Swap(@, smallest_child, current_idx),
                                                !.path = Append(@, smallest_child)],
                                    count, smallest_child)
                           ELSE st2

\* the value is taken from the last live slot instead of the vacated one
take_from_count(st, idx) ==
    LET st1 == Use(st, {idx - 1})
    IN  IF st1.panic
        THEN [items |-> st1.items, touched |-> st1.touched, panic |-> TRUE, ret |-> None]
        ELSE [items |-> Put(st1.items, idx - 1, Default), touched |-> st1.touched,
              panic |-> FALSE, ret |-> Some(At(st1.items, idx - 1))]

\* the value is copied out and the slot keeps it
take_keeping_slot(st, idx) ==
    LET st1 == Use(st, {idx})
    IN  IF st1.panic
        THEN [items |-> st1.items, touched |-> st1.touched, panic |-> TRUE, ret |-> None]
        ELSE [items |-> st1.items, touched |-> st1.touched,
              panic |-> FALSE, ret |-> Some(At(st1.items, idx))]

\* std::mem::replace(&mut self.items[idx], T::default())
take(st, idx) ==
    LET st1 == Use(st, {idx})
    IN  IF st1.panic
        THEN [items |-> st1.items, touched |-> st1.touched, panic |-> TRUE, ret |-> None]
        ELSE [items |-> Put(st1.items, idx, Default), touched |-> st1.touched,
              panic |-> FALSE, ret |-> Some(At(st1.items, idx))]

\* the storage is released when the heap is found empty
next_on_empty_truncating(items, count) ==
    [items |-> << At(items, 0) >>, count |-> count, touched |-> {}, panic |-> FALSE,
     ret |-> None, path |-> << >>]

\* the placeholder value is handed out instead of the absence signal
next_on_empty_some_default(items, count) ==
    [items |-> items, count |-> count, touched |-> {}, panic |-> FALSE,
     ret |-> Some(Default), path |-> << >>]

\* if self.is_empty() { return None; }
next_on_empty(items, count) ==
    [items |-> items, count |-> count, touched |-> {}, panic |-> FALSE, ret |-> None,
     path |-> << >>]

next_op(cmp, items, count) ==
    IF is_empty(count)
    THEN next_on_empty(items, count)
    ELSE LET st0 == Use([items |-> items, touched |-> {}, panic |-> FALSE,
                         path |-> << 1 >>], {1, count})
         IN  IF st0.panic \/ count < 1
             \* an out-of-range swap, or the usize subtraction overflowing
             THEN [items |-> items, count |-> count, touched |-> st0.touched,
                   panic |-> TRUE, ret |-> None, path |-> << >>]
             ELSE LET count1 == count - 1
                      st1    == [st0 EXCEPT !.items = Swap(@, 1, count)]
                      st2    == down_heap(cmp, st1, count1, 1)
                      st3    == take(st2, count1 + 1)
                  IN  [items |-> st3.items, count |-> count1, touched |-> st3.touched,
                       panic |-> st3.panic, ret |-> st3.ret, path |-> st2.path]

\* ------------------------------------------------------------------ state
VARIABLES
    count,       \* Heap.count
    items,       \* Heap.items
    comparator,  \* Heap.comparator
    ret,         \* what the last call of next returned
    lastOp,      \* "new", "add" or "next": the last call made
    touched,     \* the indices of items the last call read, wrote or swapped
    panicked,    \* a call indexed items out of bounds
    added,       \* bag of all values passed to add
    returned,    \* bag of all values returned by next inside Some
    out,         \* the values next returned since the last add, in order
    nAdd,        \* number of add calls
    nSome,       \* number of next calls that returned Some
    path,        \* the values current_idx took in the loop of the last call
    maxCount     \* the largest value count has had so far

vars == << count, items, comparator, ret, lastOp, touched, panicked,
           added, returned, out, nAdd, nSome, path, maxCount >>

\* Heap::new(comparator), through new_min / new_max / MinHeap::new /
\* MaxHeap::new or directly with a custom predicate
new(cmp) ==
    /\ count = 0
    /\ items = << Default >>
    /\ comparator = cmp

Init ==
    /\ \E cmp \in Comparators : new(cmp)
    /\ ret = None
    /\ lastOp = "new"
    /\ touched = {}
    /\ panicked = FALSE
    /\ added = EmptyBag
    /\ returned = EmptyBag
    /\ out = << >>
    /\ nAdd = 0
    /\ nSome = 0
    /\ path = << >>
    /\ maxCount = 0

add(value) ==
    /\ ~panicked
    /\ nAdd < MaxAdds
    /\ LET r == add_op(comparator, items, count, value)
       IN  /\ items' = r.items
           /\ count' = r.count
           /\ touched' = r.touched
           /\ panicked' = r.panic
           /\ path' = r.path
           /\ maxCount' = IF r.count > maxCount THEN r.count ELSE maxCount
    /\ lastOp' = "add"
    /\ added' = added (+) SetToBag({value})
    /\ nAdd' = nAdd + 1
    /\ out' = << >>
    /\ UNCHANGED << comparator, ret, returned, nSome >>

next ==
    /\ ~panicked
    /\ LET r == next_op(comparator, items, count)
       IN  /\ items' = r.items
           /\ count' = r.count
           /\ touched' = r.touched
           /\ panicked' = r.panic
           /\ ret' = r.ret
           /\ path' = r.path
           /\ returned' = IF r.ret = None THEN returned
                          ELSE returned (+) SetToBag({r.ret[1]})
           /\ out' = IF r.ret = None THEN out ELSE Append(out, r.ret[1])
           /\ nSome' = IF r.ret = None THEN nSome ELSE nSome + 1
    /\ lastOp' = "next"
    /\ UNCHANGED << comparator, added, nAdd, maxCount >>

Next ==
    \/ \E value \in Values : add(value)
    \/ next

Spec == Init /\ [][Next]_vars

\* ------------------------------------------------------- derived notions
\* the live region items[1..=count]
LiveIdx == 1 .. count
Live    == { At(items, i) : i \in LiveIdx }
LiveBag == [ v \in Live |-> Cardinality({ i \in LiveIdx : At(items, i) = v }) ]

MinOf(S) == CHOOSE m \in S : \A e \in S : m <= e
MaxOf(S) == CHOOSE m \in S : \A e \in S : m >= e

\* c is a strict weak order on Values ("higher priority than"): irreflexive,
\* transitive, and not outranking is transitive as well
IsStrictWeakOrder(c) ==
    /\ \A a \in Values : ~Cmp(c, a, a)
    /\ \A a, b, d \in Values : Cmp(c, a, b) /\ Cmp(c, b, d) => Cmp(c, a, d)
    /\ \A a, b, d \in Values : ~Cmp(c, a, b) /\ ~Cmp(c, b, d) => ~Cmp(c, a, d)

\* the comparators of the model that are strict weak orders
StrictWeakOrders == { c \in Comparators : IsStrictWeakOrder(c) }

\* the step just taken is a call of next on a non-empty heap
NextOnNonEmpty == lastOp' = "next" /\ count > 0 /\ ~panicked

\* ------------------------------------------------------------------ claims

\* C1: whenever next is called with count > 0, a min-heap returns Some(x)
\* with x the minimum of the live elements and a max-heap returns Some(x)
\* with x the maximum; no live element outranks the returned one.
C1_NextReturnsExtremum ==
    [][ (NextOnNonEmpty /\ comparator \in {"lt", "gt"}) =>
            /\ ret' # None
            /\ comparator = "lt" => ret'[1] = MinOf(Live)
            /\ comparator = "gt" => ret'[1] = MaxOf(Live)
            /\ \A e \in Live : ~Cmp(comparator, e, ret'[1]) ]_vars

\* next on a min- or max-heap has returned a value that strictly outranks an
\* element still in the heap
C1_Witness ==
    /\ lastOp = "next" /\ ret # None /\ comparator \in {"lt", "gt"}
    /\ nAdd >= 4
    /\ \E e \in Live : Cmp(comparator, ret[1], e)

\* C2: draining a min-heap or max-heap with next (no add in between) yields
\* ascending values for a min-heap and descending values for a max-heap:
\* for consecutive results x then y, comparator(y, x) is false.
C2_SortedExtraction ==
    comparator \in {"lt", "gt"} =>
        \A k \in 1 .. Len(out) - 1 :
            /\ ~Cmp(comparator, out[k + 1], out[k])
            /\ comparator = "lt" => out[k] <= out[k + 1]
            /\ comparator = "gt" => out[k] >= out[k + 1]

\* a min- or max-heap with at least four values, not all equal, fully drained
C2_Witness ==
    /\ comparator \in {"lt", "gt"} /\ lastOp = "next"
    /\ count = 0 /\ Len(out) >= 4
    /\ \E k \in 1 .. Len(out) - 1 : out[k] # out[k + 1]

C4_Conservation ==
    ~panicked =>
        /\ LiveBag (+) returned = added
        /\ count = 0 => returned = added

\* values were added, some twice, and all of them have been returned
C4_Witness ==
    /\ count = 0 /\ nSome >= 4 /\ lastOp = "next"
    /\ \E v \in Values : CopiesIn(v, added) >= 2
    /\ Cardinality(BagToSet(added)) >= 2

\* C5: size accounting: len() is the number of add calls minus the number of
\* next calls that returned Some, and is_empty() holds exactly when that
\* difference is 0.
C5_SizeAccounting ==
    ~panicked =>
        /\ len(count) = nAdd - nSome
        /\ is_empty(count) <=> (nAdd - nSome = 0)

\* adds and successful nexts have both happened and the heap is not empty
C5_Witness ==
    nAdd >= 3 /\ nSome >= 2 /\ len(count) = 1 /\ ~is_empty(count)

\* C6 as stated: for a heap built by Heap::new with ANY two-argument boolean
\* predicate p, draining yields consecutive values x then y with p(y, x)
\* false.
C6_AnyPredicateSorted ==
    \A k \in 1 .. Len(out) - 1 : ~Cmp(comparator, out[k + 1], out[k])

\* C6 (amended): for a heap built by Heap::new with a custom predicate p that
\* is a strict weak order (irreflexive, transitive, and "does not outrank"
\* transitive), e.g. comparing by absolute value, draining yields consecutive
\* values x then y with p(y, x) false.
C6_StrictWeakOrderSorted ==
    comparator \in StrictWeakOrders =>
        \A k \in 1 .. Len(out) - 1 : ~Cmp(comparator, out[k + 1], out[k])

\* a heap ordered by absolute value has been drained, in an order that is
\* neither ascending nor descending in the natural order
C6_Witness ==
    /\ comparator = "abslt" /\ count = 0 /\ Len(out) >= 4
    /\ \E k \in 1 .. Len(out) - 1 : out[k] < out[k + 1]
    /\ \E k \in 1 .. Len(out) - 1 : out[k] > out[k + 1]
    /\ \E k \in 1 .. Len(out) - 1 : Cmp(comparator, out[k], out[k + 1])

\* C7: on a newly constructed heap and on a heap drained to count = 0,
\* is_empty() is true, len() is 0 and next() returns None.
C7_EmptyHeap ==
    /\ [](returned = added /\ ~panicked => count = 0 /\ is_empty(count) /\ len(count) = 0)
    /\ [][ (count = 0 /\ lastOp' = "next") => ret' = None /\ ~panicked' ]_vars

\* next has answered None on a heap that held values and was drained
C7_Witness ==
    /\ lastOp = "next" /\ ret = None /\ count = 0
    /\ nAdd >= 2 /\ returned = added

\* C8: next on a heap with count = 0 returns None and leaves count, every
\* slot of items and the length of items unchanged, however often repeated
\* (so a later add starts from the very state it would have started from).
C8_IdempotentEmptiness ==
    [][ (count = 0 /\ lastOp' = "next") =>
            /\ ret' = None
            /\ count' = count
            /\ items' = items
            /\ Len(items') = Len(items)
            /\ comparator' = comparator
            /\ ~panicked' ]_vars

\* next has answered None on a heap whose storage had grown, and an add can
\* still follow
C8_Witness ==
    /\ lastOp = "next" /\ ret = None
    /\ Len(items) >= 3 /\ nAdd < MaxAdds

\* C9: index safety: no call panics on an out-of-bounds access: every index
\* a call uses on items is below items.len(), and items.len() >= count + 1
\* before and after every call.
C9_IndexSafety ==
    /\ ~panicked
    /\ \A i \in touched : i >= 0 /\ i < Len(items)
    /\ Len(items) >= count + 1

\* next has used the last slot of the storage, after a down-heap pass that
\* looked at both children
C9_Witness ==
    /\ lastOp = "next" /\ ret # None
    /\ (Len(items) - 1) \in touched /\ Cardinality(touched) >= 4

\* C10: items[0] holds T::default() from construction on, and no call of add
\* or next reads, writes or swaps it: every index used is >= 1.
C10_SentinelSlot ==
    /\ At(items, 0) = Default
    /\ 0 \notin touched
    /\ \A i \in touched : i >= 1

\* add has bubbled a value up to the root through two levels
C10_Witness ==
    /\ lastOp = "add" /\ count >= 4
    /\ {1, 2, 4} \subseteq touched
    /\ At(items, 1) # Default

\* the step just taken is a call of add, and the value it was given
AddStep    == lastOp' = "add" /\ nAdd' = nAdd + 1
AddedValue == CHOOSE v \in Values : added' = added (+) SetToBag({v})
Last(q)    == q[Len(q)]

\* C11: storage reuse: add starts the new value at index count (after the
\* increment), growing items by one slot only when the incremented count
\* equals items.len() and otherwise reusing the existing slot; next never
\* shortens items; so items.len() is 1 plus the largest count ever reached.
C11_StorageReuse ==
    /\ [](~panicked => Len(items) = 1 + maxCount)
    /\ [][ AddStep =>
             /\ ~panicked'
             /\ count + 1 <= Len(items)
             /\ Len(items') = IF count + 1 = Len(items) THEN Len(items) + 1 ELSE Len(items)
             /\ place(items, count + 1, AddedValue).items
                  = IF count + 1 = Len(items)
                    THEN Append(items, AddedValue)
                    ELSE Put(items, count + 1, AddedValue)
             /\ path'[1] = count'
             /\ At(items', Last(path')) = AddedValue ]_vars
    /\ [][ lastOp' = "next" => Len(items') = Len(items) ]_vars

\* add has reused a slot left behind by next while further stale slots remain
C11_Witness ==
    /\ lastOp = "add" /\ nSome >= 2 /\ count >= 2
    /\ Len(items) > count + 1 /\ maxCount >= 3

\* floor(log2(n)) for n >= 1
FloorLog2(n) == CHOOSE k \in 0 .. n : 2 ^ k <= n /\ n < 2 ^ (k + 1)

\* the number of swaps the loop of the last call made
Swaps == Len(path) - 1

\* C12: termination: for every comparator, the up-heap loop of add strictly
\* decreases current_idx, stops at index >= 1 and swaps at most
\* floor(log2(count)) times; the down-heap loop of next strictly increases
\* current_idx, stays inside the live region and swaps at most
\* floor(log2(count)) times for the count after the decrement (no swap when
\* that count is <= 1).
C12_Termination ==
    /\ ~panicked
    /\ lastOp = "add" =>
         /\ path[1] = count
         /\ \A k \in 1 .. Len(path) - 1 : path[k + 1] < path[k]
         /\ Last(path) >= 1
         /\ Swaps <= FloorLog2(count)
    /\ (lastOp = "next" /\ ret # None) =>
         /\ path[1] = 1
         /\ \A k \in 1 .. Len(path) - 1 : path[k + 1] > path[k]
         /\ Last(path) <= IF count = 0 THEN 1 ELSE count
         /\ Swaps <= IF count <= 1 THEN 0 ELSE FloorLog2(count)

\* with the non-strict comparator `<=`, next has moved the replacement of the
\* root down two levels: as many swaps as the bound allows
C12_Witness ==
    /\ comparator = "le" /\ lastOp = "next" /\ ret # None
    /\ count >= 4 /\ Swaps = 2 /\ Swaps = FloorLog2(count)

\* the heap inside a call of next, between the decrement of count and the
\* down-heap loop: root and last element swapped, count one less
MidItems == IF count > 0 THEN Swap(items, 1, count) ELSE items
MidCount == IF count > 0 THEN count - 1 ELSE count

\* what C13 says of smallest_child_idx on a heap with storage its and cnt
\* live elements
ChildSelection(its, cnt) ==
    \A i \in 1 .. cnt :
        left_child_idx(i) <= cnt =>
            LET l == 2 * i
                r == 2 * i + 1
                c == smallest_child_idx(comparator, its, cnt, i)
            IN  /\ c = r <=> (r <= cnt /\ Cmp(comparator, At(its, r), At(its, l)))
                /\ c # r => c = l
                /\ (r <= cnt /\ ~Cmp(comparator, At(its, r), At(its, l))) => c = l
                /\ r > cnt => c = l
                /\ (comparator \in StrictWeakOrders /\ r <= cnt) =>
                       ~Cmp(comparator, At(its, IF c = l THEN r ELSE l), At(its, c))

PlaceholderIdx == { j \in 0 .. Len(items) - 1 : j = 0 \/ j > count }

\* C14: placeholder invariant: after every completed add or next, index 0
\* and every index j with count < j < items.len() hold T::default(); next
\* returns the former root, taken out of slot count + 1 (count after the
\* decrement), which is left holding the placeholder; so a returned value is
\* found among the elements kept in items only if it was added more often
\* than it was returned.
C14_Placeholder ==
    /\ [](~panicked => \A j \in PlaceholderIdx : At(items, j) = Default)
    /\ [][ NextOnNonEmpty =>
             /\ ret' = Some(At(items, 1))
             /\ ret' = Some(At(MidItems, MidCount + 1))
             /\ (count' + 1) \in touched'
             /\ At(items', count' + 1) = Default ]_vars
    /\ [](~panicked =>
            \A x \in Values :
                (CopiesIn(x, returned) > 0 /\ x \in Live)
                    => CopiesIn(x, added) > CopiesIn(x, returned))

\* next has returned a value other than the placeholder, a second copy of it
\* is still live, and more than one slot above count holds the placeholder
C14_Witness ==
    /\ lastOp = "next" /\ ret # None /\ ret[1] # Default
    /\ ret[1] \in Live
    /\ Len(items) > count + 2

\* the indices on the way from n to the root: n, n/2, n/4, ..., 1
AncPath(n) == { n \div (2 ^ k) : k \in 0 .. n } \ {0}

Range(q) == { q[k] : k \in 1 .. Len(q) }

\* C15: frame of add: add(value) changes only slots on the way from the new
\* index count to the root, and of these only the ones current_idx went
\* through before bubbling stopped; value ends where bubbling stopped and
\* each displaced ancestor has moved down exactly one level, keeping their
\* order from top to bottom; every other slot is unchanged; no operation
\* modifies comparator.
C15_AddFrame ==
    /\ [][ AddStep =>
             LET n == count + 1
             IN  /\ ~panicked'
                 /\ Range(path') \subseteq AncPath(n)
                 /\ path'[1] = n
                 /\ \A k \in 1 .. Len(path') - 1 : path'[k + 1] = path'[k] \div 2
                 /\ \A j \in 0 .. Len(items') - 1 :
                        j \notin Range(path') =>
                            j < Len(items) /\ At(items', j) = At(items, j)
                 /\ \A j \in 0 .. Len(items) - 1 :
                        j \notin AncPath(n) => At(items', j) = At(items, j)
                 /\ At(items', Last(path')) = AddedValue
                 /\ \A k \in 1 .. Len(path') - 1 :
                        At(items', path'[k]) = At(items, path'[k + 1]) ]_vars
    /\ [][ comparator' = comparator ]_vars

\* add has bubbled a value up two levels past two different ancestors, next
\* to a live slot that is not on its way
C15_Witness ==
    /\ lastOp = "add" /\ count = 5 /\ path = << 5, 2, 1 >>
    /\ At(items, 5) # At(items, 2)
    /\ At(items, 2) # At(items, 1)
    /\ At(items, 3) # Default

====
